---- MODULE Spec2Model ----
(***************************************************************************)
(* Model of src/app/main.py: BaseRobot, FlyingRobot, DeliveryDrone, Cargo. *)
(*                                                                         *)
(* Python lists are objects with identity, so the model keeps a heap of    *)
(* list objects and every robot holds a reference into it: two robots built *)
(* from the same list object share it, and `self.coords[i] += step` mutates *)
(* the shared object in place.  Cargo objects live in a second heap.        *)
(***************************************************************************)
EXTENDS Integers, Sequences, FiniteSets

\* ---------------------------------------------------------------- bounds
NumRobots == 2      \* robot objects the caller may construct
MaxLists  == 2      \* list objects ever allocated
MaxCargos == 2      \* Cargo objects ever constructed
MaxLen    == 3      \* longest list the caller builds for a coords argument
MaxCoord  == 1      \* movement is explored while 0 <= coordinate <= MaxCoord
MaxStep   == 1      \* steps are drawn from -MaxStep..MaxStep

Robots       == 1..NumRobots
Steps        == (0 - MaxStep)..MaxStep
InitVals     == {0, 1}          \* values the caller puts in a coords list
CargoWeights == {1, 2}        \* Cargo(weight) arguments (no validation)
LoadLimits   == {0, 1}          \* max_load_weight arguments (default 0)
Names        == {"Rex"}
Weights      == {5}

None == 0           \* Python None, for references (object ids start at 1)

VARIABLES
    heap,             \* heap[i]: contents of list object i
    cargos,           \* cargos[c]: Cargo object c's weight attribute
    kind,             \* kind[r]: class of robot object r, "none" before construction
    name,             \* self.name
    weight,           \* self.weight
    coords,           \* self.coords: a reference to a list object
    max_load_weight,  \* self.max_load_weight (DeliveryDrone)
    current_load,     \* self.current_load: a reference to a Cargo, or None
    given,            \* length of the coords argument robot r was built with (-1: None)
    last              \* the call that has just returned (or raised)

prog == <<heap, cargos, kind, name, weight, coords, max_load_weight, current_load>>
vars == <<heap, cargos, kind, name, weight, coords, max_load_weight, current_load,
          given, last>>

\* the record of a call: the method, the robot it was called on (0: none), the
\* Cargo passed to it (None: none), the exception it raised, what it returned
Call(op, r, g, e, v) == [op |-> op, r |-> r, cargo |-> g, err |-> e, ret |-> v]

\* all sequences over S of length 0..n
SeqsUpTo(S, n) == UNION {[1..k -> S] : k \in 0..n}

\* contents of robot r's position list
Coords(r) == heap[coords[r]]

Init ==
    /\ heap = <<>>
    /\ cargos = <<>>
    /\ kind = [r \in Robots |-> "none"]
    /\ name = [r \in Robots |-> ""]
    /\ weight = [r \in Robots |-> 0]
    /\ coords = [r \in Robots |-> None]
    /\ max_load_weight = [r \in Robots |-> 0]
    /\ current_load = [r \in Robots |-> None]
    /\ given = [r \in Robots |-> 0 - 1]
    /\ last = Call("start", 0, None, "none", <<>>)

\* ------------------------------------------------------- caller's objects
\* The caller builds a list object to pass as a coords argument.
NewList(l) ==
    /\ Len(heap) < MaxLists
    /\ heap' = Append(heap, l)
    /\ last' = Call("list", 0, None, "none", <<>>)
    /\ UNCHANGED <<cargos, kind, name, weight, coords, max_load_weight,
                   current_load, given>>

\* Cargo.__init__
Cargo_init(w) ==
    /\ Len(cargos) < MaxCargos
    /\ cargos' = Append(cargos, w)
    /\ last' = Call("Cargo", 0, Len(cargos) + 1, "none", <<>>)
    /\ UNCHANGED <<heap, kind, name, weight, coords, max_load_weight,
                   current_load, given>>

\* ------------------------------------------------------------ constructors
\* A list allocation: the heap with the new object, and the reference to it.
Alloc(h, l) == [heap |-> Append(h, l), ref |-> Len(h) + 1]

\* BaseRobot.__init__: self.coords = coords if coords is not None else [0, 0]
BaseRobot_coords(h, arg) ==
    IF arg # None THEN [heap |-> h, ref |-> arg] ELSE Alloc(h, <<0, 0>>)

\* FlyingRobot.__init__ without line 96 (self.coords = coords): the robot keeps
\* the parent_coords that super().__init__ bound.
FlyingRobot_coords_parent(h, arg) ==
    IF arg = None THEN Alloc(h, <<0, 0>>)
    ELSE IF Len(h[arg]) = 3 THEN Alloc(h, SubSeq(h[arg], 1, 2))
    ELSE [heap |-> h, ref |-> arg]

\* FlyingRobot.__init__ without the padding of line 93 (coords = coords + [0])
FlyingRobot_coords_nopad(h, arg) ==
    IF arg = None THEN Alloc(h, <<0, 0, 0>>) ELSE [heap |-> h, ref |-> arg]

\* FlyingRobot.__init__: the three branches on coords.  super().__init__ binds
\* self.coords to parent_coords first and line 96 rebinds it to coords, so the
\* parent_coords object ([0, 0] or coords[:2]) is unreachable once the
\* constructor returns and is not kept in the heap.
FlyingRobot_coords(h, arg) ==
    IF arg = None THEN Alloc(h, <<0, 0, 0>>)
    ELSE IF Len(h[arg]) = 3 THEN [heap |-> h, ref |-> arg]
    ELSE Alloc(h, h[arg] \o <<0>>)

\* hook_load without the `current_load is None` test: a loaded drone's cargo
\* is replaced.
hook_load_result_replace(cur, maxw, c) ==
    IF cargos[c] <= maxw THEN c ELSE cur

\* hook_load without the weight test
hook_load_result_noweight(cur, maxw, c) ==
    IF cur = None THEN c ELSE cur

\* DeliveryDrone.hook_load: the new value of self.current_load
hook_load_result(cur, maxw, c) ==
    IF cur = None /\ cargos[c] <= maxw THEN c ELSE cur

\* unhook_load that clears nothing (`self.current_load == None`)
unhook_load_result_keep(cur) == cur

\* DeliveryDrone.unhook_load: the new value of self.current_load
unhook_load_result(cur) == None

ArgLen(arg) == IF arg = None THEN 0 - 1 ELSE Len(heap[arg])

\* Robot objects are created in order, like the other objects' ids.
Construct(r, k, n, w, res, arg, maxw, load) ==
    /\ kind[r] = "none"
    /\ \A q \in 1..(r - 1) : kind[q] # "none"
    /\ Len(res.heap) <= MaxLists
    /\ heap' = res.heap
    /\ kind' = [kind EXCEPT ![r] = k]
    /\ name' = [name EXCEPT ![r] = n]
    /\ weight' = [weight EXCEPT ![r] = w]
    /\ coords' = [coords EXCEPT ![r] = res.ref]
    /\ max_load_weight' = [max_load_weight EXCEPT ![r] = maxw]
    /\ current_load' = [current_load EXCEPT ![r] = load]
    /\ given' = [given EXCEPT ![r] = ArgLen(arg)]
    /\ UNCHANGED cargos

BaseRobot_init(r, n, w, arg) ==
    /\ Construct(r, "BaseRobot", n, w, BaseRobot_coords(heap, arg), arg, 0, None)
    /\ last' = Call("BaseRobot", r, None, "none", <<>>)

FlyingRobot_init(r, n, w, arg) ==
    /\ Construct(r, "FlyingRobot", n, w, FlyingRobot_coords(heap, arg), arg, 0, None)
    /\ last' = Call("FlyingRobot", r, None, "none", <<>>)

\* DeliveryDrone.__init__ that stores its current_load argument as it is
\* (self.current_load = current_load) instead of calling hook_load.
DeliveryDrone_init_assign(r, n, w, arg, maxw, load) ==
    /\ Construct(r, "DeliveryDrone", n, w, FlyingRobot_coords(heap, arg), arg, maxw, load)
    /\ last' = Call("DeliveryDrone", r, load, "none", <<>>)

\* DeliveryDrone.__init__: current_load starts None, then hook_load(current_load)
\* when a cargo was passed.
DeliveryDrone_init(r, n, w, arg, maxw, load) ==
    /\ Construct(r, "DeliveryDrone", n, w, FlyingRobot_coords(heap, arg), arg, maxw,
                 IF load # None THEN hook_load_result(None, maxw, load) ELSE None)
    /\ last' = Call("DeliveryDrone", r, load, "none", <<>>)

\* ---------------------------------------------------------------- movement
\* self.coords[i] += d on list object c (Python index i, TLA+ index i + 1)
AddAt(h, c, i, d) == [h EXCEPT ![c][i + 1] = @ + d]

go_forward_heap(h, c, step) == AddAt(h, c, 1, step)
go_back_heap_plus(h, c, step) == AddAt(h, c, 1, step)   \* go_back with += for -=
go_back_heap(h, c, step)    == AddAt(h, c, 1, 0 - step)
go_right_heap(h, c, step)   == AddAt(h, c, 0, step)
go_left_heap(h, c, step)    == AddAt(h, c, 0, 0 - step)
go_up_heap(h, c, step)      == AddAt(h, c, 2, step)
go_down_heap(h, c, step)    == AddAt(h, c, 2, 0 - step)

InRange(h) == \A c \in 1..Len(h) : \A j \in 1..Len(h[c]) :
                  h[c][j] >= 0 /\ h[c][j] <= MaxCoord

\* A movement call: IndexError when the list has no element i, else the
\* in-place update h2 of the list object.
Move(op, r, i, h2) ==
    /\ kind[r] # "none"
    /\ IF Len(Coords(r)) <= i
       THEN /\ UNCHANGED heap
            /\ last' = Call(op, r, None, "IndexError", <<>>)
       ELSE /\ InRange(h2)
            /\ heap' = h2
            /\ last' = Call(op, r, None, "none", <<>>)
    /\ UNCHANGED <<cargos, kind, name, weight, coords, max_load_weight,
                   current_load, given>>

Flies(r) == kind[r] \in {"FlyingRobot", "DeliveryDrone"}

go_forward(r, step) == Move("go_forward", r, 1, go_forward_heap(heap, coords[r], step))
go_back(r, step)    == Move("go_back", r, 1, go_back_heap(heap, coords[r], step))
go_right(r, step)   == Move("go_right", r, 0, go_right_heap(heap, coords[r], step))
go_left(r, step)    == Move("go_left", r, 0, go_left_heap(heap, coords[r], step))
go_up(r, step)      == Flies(r) /\ Move("go_up", r, 2, go_up_heap(heap, coords[r], step))
go_down(r, step)    == Flies(r) /\ Move("go_down", r, 2, go_down_heap(heap, coords[r], step))

\* BaseRobot.get_info: f"Robot: {self.name}, Weight: {self.weight}"
get_info(r) ==
    /\ kind[r] # "none"
    /\ last' = Call("get_info", r, None, "none",
                    <<"Robot: ", name[r], ", Weight: ", weight[r]>>)
    /\ UNCHANGED <<prog, given>>

\* ------------------------------------------------------------------- cargo
hook_load(r, c) ==
    /\ kind[r] = "DeliveryDrone"
    /\ current_load' = [current_load EXCEPT
                          ![r] = hook_load_result(@, max_load_weight[r], c)]
    /\ last' = Call("hook_load", r, c, "none", <<>>)
    /\ UNCHANGED <<heap, cargos, kind, name, weight, coords, max_load_weight, given>>

unhook_load(r) ==
    /\ kind[r] = "DeliveryDrone"
    /\ current_load' = [current_load EXCEPT ![r] = unhook_load_result(@)]
    /\ last' = Call("unhook_load", r, None, "none", <<>>)
    /\ UNCHANGED <<heap, cargos, kind, name, weight, coords, max_load_weight, given>>

\* ------------------------------------------------------------ specification
ListArgs  == {None} \cup (1..Len(heap))
CargoArgs == {None} \cup (1..Len(cargos))

\* Every operation of the module.  Positions and cargo do not interact (no
\* movement reads or writes a cargo attribute, no cargo method touches a
\* list), so the state space is explored in two parts: NextMove and NextCargo.
Next ==
    \/ \E l \in SeqsUpTo(InitVals, MaxLen) : NewList(l)
    \/ \E w \in CargoWeights : Cargo_init(w)
    \/ \E r \in Robots, n \in Names, w \in Weights, a \in ListArgs :
          BaseRobot_init(r, n, w, a)
    \/ \E r \in Robots, n \in Names, w \in Weights, a \in ListArgs :
          FlyingRobot_init(r, n, w, a)
    \/ \E r \in Robots, n \in Names, w \in Weights, a \in ListArgs,
          m \in LoadLimits, c \in CargoArgs :
          DeliveryDrone_init(r, n, w, a, m, c)
    \/ \E r \in Robots, s \in Steps : go_forward(r, s)
    \/ \E r \in Robots, s \in Steps : go_back(r, s)
    \/ \E r \in Robots, s \in Steps : go_right(r, s)
    \/ \E r \in Robots, s \in Steps : go_left(r, s)
    \/ \E r \in Robots, s \in Steps : go_up(r, s)
    \/ \E r \in Robots, s \in Steps : go_down(r, s)
    \/ \E r \in Robots : get_info(r)
    \/ \E r \in Robots, c \in 1..Len(cargos) : hook_load(r, c)
    \/ \E r \in Robots : unhook_load(r)

Spec == Init /\ [][Next]_vars

\* Positions: every class, caller-built lists, every movement; no Cargo exists.
NextMove ==
    \/ \E l \in SeqsUpTo(InitVals, MaxLen) : NewList(l)
    \/ \E r \in Robots, n \in Names, w \in Weights, a \in ListArgs :
          BaseRobot_init(r, n, w, a)
    \/ \E r \in Robots, n \in Names, w \in Weights, a \in ListArgs :
          FlyingRobot_init(r, n, w, a)
    \/ \E r \in Robots, n \in Names, w \in Weights, a \in ListArgs :
          DeliveryDrone_init(r, n, w, a, 0, None)
    \/ \E r \in Robots, s \in Steps : go_forward(r, s)
    \/ \E r \in Robots, s \in Steps : go_back(r, s)
    \/ \E r \in Robots, s \in Steps : go_right(r, s)
    \/ \E r \in Robots, s \in Steps : go_left(r, s)
    \/ \E r \in Robots, s \in Steps : go_up(r, s)
    \/ \E r \in Robots, s \in Steps : go_down(r, s)
    \/ \E r \in Robots : get_info(r)

SpecMove == Init /\ [][NextMove]_vars

\* Cargo: drones, Cargo objects, hook_load and unhook_load, every movement.
NextCargo ==
    \/ \E w \in CargoWeights : Cargo_init(w)
    \/ \E r \in Robots, n \in Names, w \in Weights, a \in ListArgs,
          m \in LoadLimits, c \in CargoArgs :
          DeliveryDrone_init(r, n, w, a, m, c)
    \/ \E r \in Robots, s \in Steps : go_forward(r, s)
    \/ \E r \in Robots, s \in Steps : go_back(r, s)
    \/ \E r \in Robots, s \in Steps : go_right(r, s)
    \/ \E r \in Robots, s \in Steps : go_left(r, s)
    \/ \E r \in Robots, s \in Steps : go_up(r, s)
    \/ \E r \in Robots, s \in Steps : go_down(r, s)
    \/ \E r \in Robots : get_info(r)
    \/ \E r \in Robots, c \in 1..Len(cargos) : hook_load(r, c)
    \/ \E r \in Robots : unhook_load(r)

SpecCargo == Init /\ [][NextCargo]_vars

\* ================================================================== claims
MoveOps == {"go_forward", "go_back", "go_right", "go_left", "go_up", "go_down"}
Built   == {r \in Robots : kind[r] # "none"}
Drones  == {r \in Robots : kind[r] = "DeliveryDrone"}

\* C1: hook_load(c) sets current_load to c exactly when current_load was None
\* and c.weight <= max_load_weight; otherwise current_load is what it was (a
\* loaded drone keeps its cargo whatever the second cargo's weight); nothing
\* else of the drone or of another drone changes and no error is raised.
C1_HookLoad ==
    [][last'.op = "hook_load" =>
        \A r \in Robots : \A c \in 1..Len(cargos) :
          hook_load(r, c) =>
            /\ (current_load[r] = None /\ cargos[c] <= max_load_weight[r])
                  => current_load'[r] = c
            /\ ~(current_load[r] = None /\ cargos[c] <= max_load_weight[r])
                  => current_load'[r] = current_load[r]
            /\ \A q \in Robots \ {r} : current_load'[q] = current_load[q]
            /\ max_load_weight' = max_load_weight
            /\ last'.err = "none"]_vars

\* C1 witness: hook_load has returned on a drone that still carries another
\* cargo, although the cargo passed to it is within the drone's limit.
C1_Witness ==
    /\ last.op = "hook_load"
    /\ current_load[last.r] # None
    /\ current_load[last.r] # last.cargo
    /\ cargos[last.cargo] <= max_load_weight[last.r]

\* C2: a drone's current_load is None or a Cargo whose weight is at most the
\* drone's max_load_weight, in every reachable state.
C2_LoadWithinLimit ==
    \A r \in Drones :
        current_load[r] # None => cargos[current_load[r]] <= max_load_weight[r]

\* C2 witness: a loaded drone has just moved.
C2_Witness ==
    /\ last.op \in MoveOps
    /\ last.err = "none"
    /\ kind[last.r] = "DeliveryDrone"
    /\ current_load[last.r] # None

\* C3: a DeliveryDrone constructed with an initial cargo c holds c when
\* c.weight <= max_load_weight and holds nothing, with no error, when
\* c.weight > max_load_weight: the state hook_load(c) gives an empty drone.
C3_InitialCargo ==
    (last.op = "DeliveryDrone" /\ last.cargo # None) =>
        /\ last.err = "none"
        /\ current_load[last.r] =
              (IF cargos[last.cargo] <= max_load_weight[last.r]
               THEN last.cargo ELSE None)

\* C3 witness: a drone was constructed with a cargo over its limit.
C3_Witness ==
    /\ last.op = "DeliveryDrone"
    /\ last.cargo # None
    /\ cargos[last.cargo] > max_load_weight[last.r]
    /\ current_load[last.r] = None

\* C4: unhook_load leaves current_load None whether or not the drone was
\* loaded; on an empty drone, and right after another unhook_load of the same
\* drone, it changes nothing of the program's state.
C4_Unhook ==
    [][last'.op = "unhook_load" =>
        \A r \in Robots :
          unhook_load(r) =>
            /\ current_load'[r] = None
            /\ \A q \in Robots \ {r} : current_load'[q] = current_load[q]
            /\ current_load[r] = None => prog' = prog
            /\ (last.op = "unhook_load" /\ last.r = r) => prog' = prog]_vars

\* C4 witness: unhook_load has returned on a drone whose limit admits a
\* constructed cargo, and the drone is empty.
C4_Witness ==
    /\ last.op = "unhook_load"
    /\ current_load[last.r] = None
    /\ \E c \in 1..Len(cargos) : cargos[c] <= max_load_weight[last.r]

\* C5: FlyingRobot construction: no position gives (0,0,0); a length-3
\* position gives that position; a length-2 position (a,b) gives (a,b,0).
C5_Normalize ==
    [][last'.op = "FlyingRobot" =>
        \A r \in Robots : \A n \in Names : \A w \in Weights : \A a \in ListArgs :
          FlyingRobot_init(r, n, w, a) =>
            /\ a = None => heap'[coords'[r]] = <<0, 0, 0>>
            /\ (a # None /\ Len(heap[a]) = 3) => heap'[coords'[r]] = heap[a]
            /\ (a # None /\ Len(heap[a]) = 2) =>
                  heap'[coords'[r]] = <<heap[a][1], heap[a][2], 0>>]_vars

\* C5 witness: a FlyingRobot built from a length-2 list (1, b) is at (1, b, 0).
C5_Witness ==
    /\ last.op = "FlyingRobot"
    /\ given[last.r] = 2
    /\ Len(Coords(last.r)) = 3
    /\ Coords(last.r)[1] = 1
    /\ Coords(last.r)[3] = 0

Dimension(r) == IF kind[r] = "BaseRobot" THEN 2 ELSE 3

\* C6 as stated: for every constructor input, a list of any length included,
\* the length of coords is the class's dimensionality in every state.
C6_AnyInput ==
    \A r \in Built : Len(Coords(r)) = Dimension(r)

\* the coords arguments the constructors document: None, [x, y] for a
\* BaseRobot, [x, y] or [x, y, z] for a FlyingRobot or DeliveryDrone
WellFormed(r) ==
    IF kind[r] = "BaseRobot" THEN given[r] \in {0 - 1, 2}
    ELSE given[r] \in {0 - 1, 2, 3}

\* C6 amended: for a robot built with no position or a position of a length
\* its class documents, the length of coords is the class's dimensionality in
\* every state, after any sequence of movement calls.
C6_WellFormedInput ==
    \A r \in Built : WellFormed(r) => Len(Coords(r)) = Dimension(r)

\* C6 witness: a flying robot built from a length-2 list has just moved.
C6_Witness ==
    /\ last.op \in MoveOps
    /\ last.err = "none"
    /\ Flies(last.r)
    /\ given[last.r] = 2
    /\ Len(Coords(last.r)) = 3

\* C7: a movement call on one robot leaves every other robot's coords
\* unchanged, however the robots were constructed.
C7_OwnPosition ==
    [][(last'.op \in MoveOps /\ last'.r \in Built) =>
          \A q \in Built \ {last'.r} : heap'[coords'[q]] = heap[coords[q]]]_vars

\* C8: no Cargo is the current_load of two different drones at once.
C8_OneCarrier ==
    \A r \in Drones : \A q \in Drones \ {r} :
        current_load[r] # None => current_load[q] # current_load[r]

\* the list object after self.coords[i] += d, written out
Shifted(l, i, d) == [j \in 1..Len(l) |-> IF j = i + 1 THEN l[j] + d ELSE l[j]]

\* one movement method: on a robot that has coordinate i it adds d to that
\* coordinate of its list and changes nothing else, raises nothing, and the
\* opposite method's update, back, undoes it.
MoveLaw(r, i, d, back) ==
    Len(Coords(r)) > i =>
        /\ last'.err = "none"
        /\ coords' = coords
        /\ heap'[coords[r]] = Shifted(heap[coords[r]], i, d)
        /\ \A c \in 1..Len(heap) : c # coords[r] => heap'[c] = heap[c]
        /\ Len(heap') = Len(heap)
        /\ back = heap

C10_Transitions ==
    [][/\ \A r \in Drones :
            /\ (current_load[r] = None /\ current_load'[r] # None) =>
                  \E c \in 1..Len(cargos) :
                      hook_load(r, c) /\ cargos[c] <= max_load_weight[r]
            /\ (current_load[r] # None /\ current_load'[r] = None) =>
                  unhook_load(r)
       /\ last'.op \in MoveOps \cup {"get_info"} =>
            (current_load' = current_load /\ max_load_weight' = max_load_weight)]_vars

\* C10 witness: a loaded drone has just gone up.
C10_Witness ==
    /\ last.op = "go_up"
    /\ last.err = "none"
    /\ kind[last.r] = "DeliveryDrone"
    /\ current_load[last.r] # None
    /\ Coords(last.r)[3] = 1

====
